---- MODULE Spec2Model ----
(***************************************************************************)
(* A model of cogs5e/models/character.py: the consumable resources of a   *)
(* character (hit points, death saves, spell slots, custom counters), the *)
(* cvar evaluator their bounds go through, and the rest triggers.         *)
(*                                                                         *)
(* Every method is an operator over a record c holding the mutable part   *)
(* of the character; it returns [c, err, reset]: the character as the     *)
(* call leaves it (a Python exception keeps the writes made before it),   *)
(* the exception raised ("ok" for none) and the value returned.           *)
(***************************************************************************)
EXTENDS Integers, Sequences, FiniteSets, TLC

VARIABLES
    hp,                 \* self.hp
    temp_hp,            \* self.temp_hp
    max_hp,             \* self.max_hp
    death_saves,        \* self.death_saves: [successes, fails]
    spellslots,         \* character['consumables']['spellslots']: level -> [value, min, max]
    max_spellslots,     \* character['spellbook']['spellslots']: level -> max
    custom,             \* character['consumables']['custom'], in dict order
    cvars,              \* character['cvars']: name -> string (as tokens)
    options,            \* self.options: [srslots]
    live_integration,   \* self._live_integration is set
    synced,             \* the live-sheet sync calls the last call issued, in order
    last,               \* the last call: [op, name, level, value, strict]
    err,                \* the exception the last call raised, "ok" for none
    ret,                \* the list the last call returned (<< >> when it returns self)
    run                 \* [level, count]: use_slot(level) calls in a row since the pool was full

vars == <<hp, temp_hp, max_hp, death_saves, spellslots, max_spellslots, custom, cvars,
          options, live_integration, synced, last, err, ret, run>>

\* ------------------------------------------------------------------ bounds
\* largest num handed to DeathSaves.succeed / DeathSaves.fail
MaxIncrement == 4
\* largest value handed to set_remaining_slots
MaxSlotArg == 5
\* lowest hit points the handlers are driven to (damage below 0)
HpFloor == 1
\* the character's maximum hit points
MaxHpBound == 2
\* largest temporary hit points handed to set_temp_hp
MaxTempHp == 1

\* ---------------------------------------------------------------- helpers
\* Python's None, for the string-valued fields
None == "None"
\* Python's None, for a bound (a bound is a string, held as its tokens)
NoExpr == << >>

Min2(a, b) == IF a <= b THEN a ELSE b
Max2(a, b) == IF a >= b THEN a ELSE b

\* a call's outcome: returned normally, or raised
Ok(c, reset) == [c |-> c, err |-> "ok", reset |-> reset]
Raise(c, e) == [c |-> c, err |-> e, reset |-> << >>]

\* ------------------------------------------------------------ death saves
\* the cap of DeathSaves.succeed / DeathSaves.fail
DeathSavesCap == 3

\* succeed without the cap
succeed_uncapped(ds, num) == [ds EXCEPT !.successes = ds.successes + num]

succeed(ds, num) == [ds EXCEPT !.successes = Min2(DeathSavesCap, ds.successes + num)]

fail(ds, num) == [ds EXCEPT !.fails = Min2(DeathSavesCap, ds.fails + num)]

is_stable(ds) == ds.successes = 3

is_dead(ds) == ds.fails = 3

reset(ds) == [successes |-> 0, fails |-> 0]

reset_death_saves(c) == [c EXCEPT !.death_saves = reset(c.death_saves)]

\* ------------------------------------------------------------- spell slots
SpellLevels == 1..9

\* the spellbook is a required argument of Character.__init__, so the
\* assertion of get_max_spellslots holds; a level with no entry has 0 slots
get_max_spellslots(level) ==
    IF level \in DOMAIN max_spellslots THEN max_spellslots[level] ELSE 0

get_spellslots(c) == c.spellslots

\* [err, value]
get_remaining_slots(c, level) ==
    IF ~(0 <= level /\ level < 10) THEN [err |-> "InvalidSpellLevel", value |-> 0]
    ELSE IF level = 0 THEN [err |-> "ok", value |-> 1]
    ELSE [err |-> "ok", value |-> get_spellslots(c)[level].value]

\* set_remaining_slots without the upper bound on value
set_remaining_slots_no_max(c, level, value, sync) ==
    IF ~(0 < level /\ level < 10) THEN Raise(c, "InvalidSpellLevel")
    ELSE IF ~(0 <= value) THEN Raise(c, "CounterOutOfBounds")
    ELSE Ok([c EXCEPT !.spellslots[level].value = value], << >>)

set_remaining_slots(c, level, value, sync) ==
    IF ~(0 < level /\ level < 10) THEN Raise(c, "InvalidSpellLevel")
    ELSE IF ~(0 <= value /\ value <= get_max_spellslots(level)) THEN Raise(c, "CounterOutOfBounds")
    ELSE LET c1 == [c EXCEPT !.spellslots[level].value = value]
             c2 == IF live_integration /\ sync
                   THEN [c1 EXCEPT !.synced = Append(@, "sync_slots")] ELSE c1
         IN  Ok(c2, << >>)

\* use_slot refusing the last slot (val <= min for val < min)
use_slot_keeps_one(c, level) ==
    IF ~(0 <= level /\ level < 10) THEN Raise(c, "InvalidSpellLevel")
    ELSE IF level = 0 THEN Ok(c, << >>)
    ELSE IF c.spellslots[level].value - 1 <= c.spellslots[level].min
    THEN Raise(c, "CounterOutOfBounds")
    ELSE Ok([c EXCEPT !.spellslots[level].value = @ - 1], << >>)

\* use_slot without the early return for cantrips: level 0 has no pool
use_slot_no_cantrips(c, level) ==
    IF ~(0 <= level /\ level < 10) THEN Raise(c, "InvalidSpellLevel")
    ELSE IF level = 0 THEN Raise(c, "KeyError")
    ELSE IF c.spellslots[level].value - 1 < c.spellslots[level].min
    THEN Raise(c, "CounterOutOfBounds")
    ELSE Ok([c EXCEPT !.spellslots[level].value = @ - 1], << >>)

\* use_slot writing the count less one with neither test
use_slot_no_floor(c, level) ==
    IF ~(0 <= level /\ level < 10) THEN Raise(c, "InvalidSpellLevel")
    ELSE IF level = 0 THEN Ok(c, << >>)
    ELSE Ok([c EXCEPT !.spellslots[level].value = @ - 1], << >>)

use_slot(c, level) ==
    IF ~(0 <= level /\ level < 10) THEN Raise(c, "InvalidSpellLevel")
    ELSE IF level = 0 THEN Ok(c, << >>)
    ELSE LET ss == get_spellslots(c)
             val == ss[level].value - 1
         IN  IF val < ss[level].min THEN Raise(c, "CounterOutOfBounds")
             ELSE set_remaining_slots(c, level, val, TRUE)

RECURSIVE reset_spellslots_from(_, _)
reset_spellslots_from(c, level) ==
    IF level > 9
    THEN Ok(IF live_integration THEN [c EXCEPT !.synced = Append(@, "sync_slots")] ELSE c, << >>)
    ELSE LET r == set_remaining_slots(c, level, get_max_spellslots(level), FALSE)
         IN  IF r.err # "ok" THEN r ELSE reset_spellslots_from(r.c, level + 1)

reset_spellslots(c) == reset_spellslots_from(c, 1)

\* ------------------------------------------------------------------ cvars
\* A string is held as the tokens re.split(ops, string) yields from it, each
\* stripped; the empty pieces re.split leaves between operators carry nothing.
Ops == {"-", "+", "*", "/", "(", ")", ".", "<", ">", "="}

\* str(n) and int(s) for the numbers bounds are written with
Numerals == <<"0", "1", "2", "3", "4", "5", "6", "7", "8", "9">>

IsNumeral(tok) == \E i \in 1..Len(Numerals) : Numerals[i] = tok

IntOf(tok) == (CHOOSE i \in 1..Len(Numerals) : Numerals[i] = tok) - 1

StrOf(n) == Numerals[n + 1]

\* the dice evaluator on an arithmetic string: the total of a sum of numbers,
\* and 0 when the string is no such sum ("or 0 if evaluation failed")
RECURSIVE RollSum(_, _, _)
RollSum(toks, i, acc) ==
    IF i > Len(toks) THEN acc
    ELSE IF toks[i] = "+" THEN RollSum(toks, i + 2, acc + IntOf(toks[i + 1]))
    ELSE RollSum(toks, i + 2, acc - IntOf(toks[i + 1]))

Roll(toks) ==
    IF /\ Len(toks) % 2 = 1
       /\ \A i \in 1..Len(toks) :
             IF i % 2 = 1 THEN IsNumeral(toks[i]) ELSE toks[i] \in {"+", "-"}
    THEN RollSum(toks, 2, IntOf(toks[1]))
    ELSE 0

\* str(varstr).strip('<>{}')
RECURSIVE Strip(_)
Strip(toks) ==
    IF toks # << >> /\ Head(toks) \in {"<", ">", "{", "}"} THEN Strip(Tail(toks))
    ELSE IF toks # << >> /\ toks[Len(toks)] \in {"<", ">", "{", "}"}
    THEN Strip(SubSeq(toks, 1, Len(toks) - 1))
    ELSE toks

Str(varstr) == IF varstr = NoExpr THEN <<"None">> ELSE varstr

\* character['stat_cvars'] with 'spell' = get_spell_ab() - get_prof_bonus()
Sheet == [attackBonus |-> 5, proficiencyBonus |-> 3, level |-> 3]

stat_vars ==
    [level |-> Sheet.level, proficiencyBonus |-> Sheet.proficiencyBonus,
     spell |-> Sheet.attackBonus - Sheet.proficiencyBonus]

\* the first pass letting a stat variable's name through to the second pass
\* even when a cvar has that name
RECURSIVE SubstCvarsAfterStats(_)
SubstCvarsAfterStats(toks) ==
    IF toks = << >> THEN << >>
    ELSE (IF Head(toks) \in DOMAIN cvars /\ Head(toks) \notin DOMAIN stat_vars
          THEN cvars[Head(toks)] ELSE <<Head(toks)>>)
         \o SubstCvarsAfterStats(Tail(toks))

\* one pass of evaluate_cvar over the cvar table: each token gives way to the
\* value of the cvar it names, and the next pass splits that value again
RECURSIVE SubstCvars(_)
SubstCvars(toks) ==
    IF toks = << >> THEN << >>
    ELSE (IF Head(toks) \in DOMAIN cvars THEN cvars[Head(toks)] ELSE <<Head(toks)>>)
         \o SubstCvars(Tail(toks))

\* the second pass, over the stat variables
RECURSIVE SubstStatVars(_)
SubstStatVars(toks) ==
    IF toks = << >> THEN << >>
    ELSE (IF Head(toks) \in DOMAIN stat_vars
          THEN <<StrOf(stat_vars[Head(toks)])>> ELSE <<Head(toks)>>)
         \o SubstStatVars(Tail(toks))

evaluate_cvar(varstr) == Roll(SubstStatVars(SubstCvars(Strip(Str(varstr)))))

\* the characters of the names in play, for the tests Python makes on them
Chars(s) ==
    CASE s = "Rage" -> <<"R", "a", "g", "e">>
      [] s = "Ward" -> <<"W", "a", "r", "d">>
      [] s = "Hit.Dice" -> <<"H", "i", "t", ".", "D", "i", "c", "e">>
      [] s = "lvl" -> <<"l", "v", "l">>
      [] s = "a+b" -> <<"a", "+", "b">>
      [] s = "Potion" -> <<"P", "o", "t", "i", "o", "n">>
      [] s = "potion" -> <<"p", "o", "t", "i", "o", "n">>
      [] s = "Potion of Healing" ->
            <<"P", "o", "t", "i", "o", "n", " ", "o", "f", " ", "H", "e", "a", "l", "i", "n", "g">>
      [] s = "pot" -> <<"p", "o", "t">>
      [] s = "POTION" -> <<"P", "O", "T", "I", "O", "N">>
      [] s = "Heal" -> <<"H", "e", "a", "l">>
      [] s = "elixir" -> <<"e", "l", "i", "x", "i", "r">>
      [] OTHER -> << >>

ContainsAny(s, chars) == \E i \in 1..Len(Chars(s)) : Chars(s)[i] \in chars

CvarInvalidChars == {"/", "(", ")", "[", "]", "\\", ".", "^", "$", "*", "+", "?", "|", "{", "}"}

\* [err, cvars]
set_cvar(name, val) ==
    IF ContainsAny(name, CvarInvalidChars) THEN [err |-> "InvalidArgument", cvars |-> cvars]
    ELSE [err |-> "ok",
          cvars |-> [n \in DOMAIN cvars \cup {name} |-> IF n = name THEN val ELSE cvars[n]]]

\* -------------------------------------------------------- custom counters
\* the index of the counter called name in the dict, 0 when there is none
IndexOf(counters, name) ==
    IF \E i \in 1..Len(counters) : counters[i].name = name
    THEN CHOOSE i \in 1..Len(counters) : counters[i].name = name
    ELSE 0

\* dict[name] = counter: a new key goes last, a known key keeps its place
Put(counters, counter) ==
    LET i == IndexOf(counters, counter.name)
    IN  IF i = 0 THEN Append(counters, counter) ELSE [counters EXCEPT ![i] = counter]

\* del dict[name]
Remove(counters, i) == SubSeq(counters, 1, i - 1) \o SubSeq(counters, i + 1, Len(counters))

\* create_consumable without the test on the bubble display
create_consumable_any_bubble(c, name, kwargs) ==
    IF ~(kwargs.reset \in {"short", "long", "none"} \/ kwargs.reset = None)
    THEN Raise(c, "InvalidArgument")
    ELSE IF ContainsAny(name, {".", "$"}) THEN Raise(c, "InvalidArgument")
    ELSE IF /\ kwargs.maxValue # NoExpr
            /\ kwargs.minValue # NoExpr
            /\ \/ ~(evaluate_cvar(kwargs.maxValue) >= evaluate_cvar(kwargs.minValue))
               \/ evaluate_cvar(kwargs.maxValue) = 0
    THEN Raise(c, "InvalidArgument")
    ELSE IF kwargs.reset # None /\ kwargs.maxValue = NoExpr THEN Raise(c, "InvalidArgument")
    ELSE Ok([c EXCEPT !.custom =
                Put(@, [name |-> name, value |-> evaluate_cvar(kwargs.maxValue),
                        max |-> kwargs.maxValue, min |-> kwargs.minValue,
                        reset |-> kwargs.reset, type |-> kwargs.displayType,
                        live |-> kwargs.live])],
            << >>)

create_consumable(c, name, kwargs) ==
    LET _max == kwargs.maxValue
        _min == kwargs.minValue
        _reset == kwargs.reset
        _type == kwargs.displayType
        _live_id == kwargs.live
        maxV == evaluate_cvar(_max)
        value == evaluate_cvar(_max)
        newCounter == [name |-> name,
                       value |-> value,
                       max |-> _max,
                       min |-> _min,
                       reset |-> IF _reset # None /\ _max # NoExpr THEN _reset ELSE None,
                       type |-> _type,
                       live |-> _live_id]
    IN  IF ~(_reset \in {"short", "long", "none"} \/ _reset = None)
        THEN Raise(c, "InvalidArgument")
        ELSE IF ContainsAny(name, {".", "$"}) THEN Raise(c, "InvalidArgument")
        ELSE IF _max # NoExpr /\ _min # NoExpr /\ ~(maxV >= evaluate_cvar(_min))
        THEN Raise(c, "InvalidArgument")
        ELSE IF _max # NoExpr /\ _min # NoExpr /\ maxV = 0 THEN Raise(c, "InvalidArgument")
        ELSE IF _reset # None /\ _max = NoExpr THEN Raise(c, "InvalidArgument")
        ELSE IF _type = "bubble" /\ (_max = NoExpr \/ _min = NoExpr)
        THEN Raise(c, "InvalidArgument")
        ELSE Ok([c EXCEPT !.custom = Put(@, newCounter)], << >>)

\* the bounds of set_consumable; a counter without one has -(2 ** 32) or
\* 2 ** 32 - 1, beyond every value in play, so that side never clamps
HasMin(counter) == counter.min # NoExpr
HasMax(counter) == counter.max # NoExpr

InBounds(counter, newValue) ==
    /\ HasMin(counter) => evaluate_cvar(counter.min) <= newValue
    /\ HasMax(counter) => newValue <= evaluate_cvar(counter.max)

\* min(max(_min, int(newValue)), _max)
Clamp(counter, newValue) ==
    LET low == IF HasMin(counter) THEN Max2(evaluate_cvar(counter.min), newValue) ELSE newValue
    IN  IF HasMax(counter) THEN Min2(low, evaluate_cvar(counter.max)) ELSE low

\* the live-sheet call of set_consumable names `counter`, which the method
\* never binds: reaching it raises NameError, after the value is written
sync_consumable(c, i) ==
    IF c.custom[i].live # None /\ live_integration THEN Raise(c, "NameError") ELSE Ok(c, << >>)

set_consumable(c, name, newValue, strict) ==
    LET i == IndexOf(c.custom, name)
    IN  IF i = 0 THEN Raise(c, "ConsumableNotFound")
        ELSE IF strict /\ ~InBounds(c.custom[i], newValue) THEN Raise(c, "CounterOutOfBounds")
        ELSE LET v == IF strict THEN newValue ELSE Clamp(c.custom[i], newValue)
             IN  sync_consumable([c EXCEPT !.custom[i].value = v], i)

\* [err, counter]
get_consumable(c, name) ==
    LET i == IndexOf(c.custom, name)
    IN  IF i = 0 THEN [err |-> "ConsumableNotFound", counter |-> None]
        ELSE [err |-> "ok", counter |-> c.custom[i]]

get_consumable_value(c, name) == get_consumable(c, name).counter.value

\* delete_consumable removing the first counter of the dict, whatever its name
delete_consumable_first(c, name) ==
    IF IndexOf(c.custom, name) = 0 THEN Raise(c, "ConsumableNotFound")
    ELSE Ok([c EXCEPT !.custom = Remove(@, 1)], << >>)

delete_consumable(c, name) ==
    LET i == IndexOf(c.custom, name)
    IN  IF i = 0 THEN Raise(c, "ConsumableNotFound")
        ELSE Ok([c EXCEPT !.custom = Remove(@, i)], << >>)

\* NoReset is not among the names the module imports: `raise NoReset()`
\* raises NameError
reset_consumable(c, name) ==
    LET g == get_consumable(c, name)
    IN  IF g.err # "ok" THEN Raise(c, g.err)
        ELSE IF g.counter.reset = "none" THEN Raise(c, "NameError")
        ELSE IF g.counter.max = NoExpr THEN Raise(c, "NameError")
        ELSE set_consumable(c, name, evaluate_cvar(g.counter.max), FALSE)

\* the loop of _reset_custom from the i-th counter on; an exception out of
\* reset_consumable reaches `except NoReset`, whose name is unbound: NameError
RECURSIVE reset_custom_from(_, _, _, _)
reset_custom_from(c, scope, i, acc) ==
    IF i > Len(c.custom) THEN Ok(c, acc)
    ELSE IF c.custom[i].reset # scope THEN reset_custom_from(c, scope, i + 1, acc)
    ELSE LET r == reset_consumable(c, c.custom[i].name)
         IN  IF r.err # "ok" THEN Raise(r.c, "NameError")
             ELSE reset_custom_from(r.c, scope, i + 1, Append(acc, c.custom[i].name))

\* _reset_custom resetting every counter that has a scope, whatever the scope
RECURSIVE reset_custom_any_from(_, _, _)
reset_custom_any_from(c, i, acc) ==
    IF i > Len(c.custom) THEN Ok(c, acc)
    ELSE IF c.custom[i].reset \in {None, "none"} THEN reset_custom_any_from(c, i + 1, acc)
    ELSE LET r == reset_consumable(c, c.custom[i].name)
         IN  IF r.err # "ok" THEN Raise(r.c, "NameError")
             ELSE reset_custom_any_from(r.c, i + 1, Append(acc, c.custom[i].name))

reset_custom_any_scope(c, scope) == reset_custom_any_from(c, 1, << >>)

_reset_custom(c, scope) == reset_custom_from(c, scope, 1, << >>)

\* ---------------------------------------------------------------- resting
\* A handler builds its list step by step; r is the outcome so far (the
\* character, the exception if one was raised, the list) and each step
\* leaves r as it is once an exception has been raised.

\* reset.extend(<call>), where the call ended as `called`
Extend(r, called) ==
    IF called.err # "ok" THEN called ELSE Ok(called.c, r.reset \o called.reset)

\* <call>; reset.append(label): the call's outcome with the label as its list
Labelled(called, label) ==
    IF called.err # "ok" THEN called ELSE Ok(called.c, <<label>>)

\* reset.extend(self._reset_custom(scope))
extend_reset_custom(r, scope) ==
    IF r.err # "ok" THEN r ELSE Extend(r, _reset_custom(r.c, scope))

get_current_hp(c) == c.hp

get_setting(setting) == options[setting]

\* on_hp resetting the death saves at 0 HP too (>= for >)
on_hp_death_saves_at_zero(r) ==
    IF r.err # "ok" THEN r
    ELSE IF r.c.hp >= 0
    THEN Ok([r.c EXCEPT !.death_saves = [successes |-> 0, fails |-> 0]],
            Append(r.reset, "Death Saves"))
    ELSE r

\* if self.get_current_hp() > 0: reset the death saves and list them
on_hp_death_saves(r) ==
    IF r.err # "ok" THEN r
    ELSE IF get_current_hp(r.c) > 0
    THEN Ok(reset_death_saves(r.c), Append(r.reset, "Death Saves"))
    ELSE r

on_hp(c) == on_hp_death_saves(extend_reset_custom(Ok(c, << >>), "hp"))

\* reset.extend(self.on_hp())
extend_on_hp(r) == IF r.err # "ok" THEN r ELSE Extend(r, on_hp(r.c))

\* if <enabled>: self.reset_spellslots(); reset.append("Spell Slots")
reset_slots_if(r, enabled) ==
    IF r.err # "ok" \/ ~enabled THEN r
    ELSE Extend(r, Labelled(reset_spellslots(r.c), "Spell Slots"))

short_rest(c) ==
    reset_slots_if(extend_reset_custom(extend_on_hp(Ok(c, << >>)), "short"),
                   get_setting("srslots"))

\* reset.extend(self.short_rest())
extend_short_rest(r) == IF r.err # "ok" THEN r ELSE Extend(r, short_rest(r.c))

\* ------------------------------------------------------------- hit points
set_temp_hp(c, value) == [c EXCEPT !.temp_hp = Max2(0, value)]

sync_hp(c) == IF live_integration THEN [c EXCEPT !.synced = Append(@, "sync_hp")] ELSE c

\* the end of set_hp, on_hp() having ended as `called` (its list is dropped)
set_hp_sync(called) ==
    IF called.err # "ok" THEN called ELSE Ok(sync_hp(called.c), << >>)

set_hp(c, newValue) == set_hp_sync(on_hp([c EXCEPT !.hp = newValue]))

\* modify_hp without `value += min(thp, -value)`: the damage the temporary
\* hit points absorbed is dealt to the hit points as well
modify_hp_double_damage(c, value, ignore_temp) ==
    Ok(sync_hp([(IF value < 0 /\ ~ignore_temp THEN set_temp_hp(c, c.temp_hp + value) ELSE c)
                   EXCEPT !.hp = @ + value]),
       << >>)

modify_hp(c, value, ignore_temp) ==
    LET absorbs == value < 0 /\ ~ignore_temp
        thp == c.temp_hp
        c1 == IF absorbs THEN set_temp_hp(c, c.temp_hp + value) ELSE c
        value1 == IF absorbs THEN value + Min2(thp, 0 - value) ELSE value
    IN  Ok(sync_hp([c1 EXCEPT !.hp = @ + value1]), << >>)

reset_hp(c) == set_hp(set_temp_hp(c, 0), max_hp)

\* self.reset_hp(); reset.append("HP")
reset_hp_step(r) ==
    IF r.err # "ok" THEN r ELSE Extend(r, Labelled(reset_hp(r.c), "HP"))

long_rest(c) ==
    reset_slots_if(
        reset_hp_step(extend_reset_custom(extend_short_rest(extend_on_hp(Ok(c, << >>))), "long")),
        ~get_setting("srslots"))

\* reset.extend(self.long_rest())
extend_long_rest(r) == IF r.err # "ok" THEN r ELSE Extend(r, long_rest(r.c))

reset_all_consumables(c) ==
    extend_reset_custom(extend_long_rest(extend_short_rest(extend_on_hp(Ok(c, << >>)))), None)

\* ----------------------------------------------------------------- lookup
\* str.lower(), on the letters of the names in play
Lower(ch) ==
    CASE ch = "P" -> "p"
      [] ch = "O" -> "o"
      [] ch = "T" -> "t"
      [] ch = "I" -> "i"
      [] ch = "N" -> "n"
      [] ch = "H" -> "h"
      [] ch = "R" -> "r"
      [] ch = "W" -> "w"
      [] ch = "D" -> "d"
      [] OTHER -> ch

LowerChars(s) == [i \in 1..Len(Chars(s)) |-> Lower(Chars(s)[i])]

\* a in b, for strings as sequences of characters
IsSubstring(a, b) ==
    \E k \in 0..(Len(b) - Len(a)) : SubSeq(b, k + 1, k + Len(a)) = a

\* [cname for cname in custom if cname.lower() == name.lower()], and the same
\* with name.lower() in cname.lower()
RECURSIVE Choices(_, _, _)
Choices(counters, name, exact) ==
    IF counters = << >> THEN << >>
    ELSE (IF (IF exact THEN LowerChars(Head(counters).name) = LowerChars(name)
              ELSE IsSubstring(LowerChars(name), LowerChars(Head(counters).name)))
          THEN <<Head(counters).name>> ELSE << >>)
         \o Choices(Tail(counters), name, exact)

\* select_consumable without the exact-match pass
select_consumable_substring_only(c, name) ==
    IF Choices(c.custom, name, FALSE) # << >> THEN Ok(c, Choices(c.custom, name, FALSE))
    ELSE Raise(c, "ConsumableNotFound")

\* the list is the choices handed to get_selection, by name
select_consumable(c, name) ==
    IF Choices(c.custom, name, TRUE) # << >> THEN Ok(c, Choices(c.custom, name, TRUE))
    ELSE IF Choices(c.custom, name, FALSE) # << >> THEN Ok(c, Choices(c.custom, name, FALSE))
    ELSE Raise(c, "ConsumableNotFound")

\* ---------------------------------------------------------- serialization
\* CustomCounter.to_dict ends in a bare `return`: the structure is None
to_dict(counter) == None

\* cls(**d): None is no mapping, and CustomCounter defines no __init__ that
\* would take a counter's keys; either way the call raises TypeError
from_dict(d) == [err |-> "TypeError", counter |-> None]

\* ---------------------------------------------------------------- actions
\* the mutable part of the character, as a call finds it
Self ==
    [hp |-> hp, temp_hp |-> temp_hp, death_saves |-> death_saves,
     spellslots |-> spellslots, custom |-> custom, synced |-> << >>]

Call(op, name, level, value, strict) ==
    [op |-> op, name |-> name, level |-> level, value |-> value, strict |-> strict]

NoRun == [level |-> 0, count |-> 0]

\* the call `call` ended as r says
Return(r, call) ==
    /\ hp' = r.c.hp
    /\ temp_hp' = r.c.temp_hp
    /\ death_saves' = r.c.death_saves
    /\ spellslots' = r.c.spellslots
    /\ custom' = r.c.custom
    /\ synced' = r.c.synced
    /\ err' = r.err
    /\ ret' = r.reset
    /\ last' = call
    /\ UNCHANGED <<max_hp, max_spellslots, options, live_integration>>

Succeed(num) ==
    /\ Return(Ok([Self EXCEPT !.death_saves = succeed(@, num)], << >>),
              Call("succeed", None, 0, num, FALSE))
    /\ run' = NoRun
    /\ UNCHANGED cvars

Fail(num) ==
    /\ Return(Ok([Self EXCEPT !.death_saves = fail(@, num)], << >>),
              Call("fail", None, 0, num, FALSE))
    /\ run' = NoRun
    /\ UNCHANGED cvars

ResetDeathSaves ==
    /\ Return(Ok(reset_death_saves(Self), << >>), Call("reset", None, 0, 0, FALSE))
    /\ run' = NoRun
    /\ UNCHANGED cvars

SetHp(newValue) ==
    /\ Return(set_hp(Self, newValue), Call("set_hp", None, 0, newValue, FALSE))
    /\ run' = NoRun
    /\ UNCHANGED cvars

ModifyHp(value, ignore_temp) ==
    /\ hp + value \in (0 - HpFloor)..MaxHpBound
    /\ Return(modify_hp(Self, value, ignore_temp), Call("modify_hp", None, 0, value, ignore_temp))
    /\ run' = NoRun
    /\ UNCHANGED cvars

SetTempHp(value) ==
    /\ Return(Ok(set_temp_hp(Self, value), << >>), Call("set_temp_hp", None, 0, value, FALSE))
    /\ run' = NoRun
    /\ UNCHANGED cvars

ResetHp ==
    /\ Return(reset_hp(Self), Call("reset_hp", None, 0, 0, FALSE))
    /\ run' = NoRun
    /\ UNCHANGED cvars

\* use_slot, and the count of use_slot(level) calls made in a row on a pool
\* that was full when the first of them was made
UseSlot(level) ==
    /\ Return(use_slot(Self, level), Call("use_slot", None, level, 0, FALSE))
    /\ run' = IF level \notin SpellLevels THEN NoRun
              ELSE IF spellslots[level].value = get_max_spellslots(level)
              THEN [level |-> level, count |-> 1]
              ELSE IF run.level = level /\ run.count < get_max_spellslots(level) + 1
              THEN [level |-> level, count |-> run.count + 1]
              ELSE NoRun
    /\ UNCHANGED cvars

SetRemainingSlots(level, value) ==
    /\ Return(set_remaining_slots(Self, level, value, TRUE),
              Call("set_remaining_slots", None, level, value, FALSE))
    /\ run' = NoRun
    /\ UNCHANGED cvars

ResetSpellslots ==
    /\ Return(reset_spellslots(Self), Call("reset_spellslots", None, 0, 0, FALSE))
    /\ run' = NoRun
    /\ UNCHANGED cvars

CreateConsumable(name, kwargs) ==
    /\ Return(create_consumable(Self, name, kwargs),
              Call("create_consumable", name, 0, 0, FALSE))
    /\ run' = NoRun
    /\ UNCHANGED cvars

SetConsumable(name, newValue, strict) ==
    /\ Return(set_consumable(Self, name, newValue, strict),
              Call("set_consumable", name, 0, newValue, strict))
    /\ run' = NoRun
    /\ UNCHANGED cvars

DeleteConsumable(name) ==
    /\ Return(delete_consumable(Self, name), Call("delete_consumable", name, 0, 0, FALSE))
    /\ run' = NoRun
    /\ UNCHANGED cvars

ResetConsumable(name) ==
    /\ Return(reset_consumable(Self, name), Call("reset_consumable", name, 0, 0, FALSE))
    /\ run' = NoRun
    /\ UNCHANGED cvars

ResetCustom(scope) ==
    /\ Return(_reset_custom(Self, scope), Call("_reset_custom", scope, 0, 0, FALSE))
    /\ run' = NoRun
    /\ UNCHANGED cvars

OnHp ==
    /\ Return(on_hp(Self), Call("on_hp", None, 0, 0, FALSE))
    /\ run' = NoRun
    /\ UNCHANGED cvars

ShortRest ==
    /\ Return(short_rest(Self), Call("short_rest", None, 0, 0, FALSE))
    /\ run' = NoRun
    /\ UNCHANGED cvars

LongRest ==
    /\ Return(long_rest(Self), Call("long_rest", None, 0, 0, FALSE))
    /\ run' = NoRun
    /\ UNCHANGED cvars

ResetAllConsumables ==
    /\ Return(reset_all_consumables(Self), Call("reset_all_consumables", None, 0, 0, FALSE))
    /\ run' = NoRun
    /\ UNCHANGED cvars

SetCvar(name, val) ==
    /\ cvars' = set_cvar(name, val).cvars
    /\ err' = set_cvar(name, val).err
    /\ ret' = << >>
    /\ synced' = << >>
    /\ last' = Call("set_cvar", name, 0, 0, FALSE)
    /\ run' = NoRun
    /\ UNCHANGED <<hp, temp_hp, max_hp, death_saves, spellslots, max_spellslots, custom,
                   options, live_integration>>

SelectConsumable(name) ==
    /\ Return(select_consumable(Self, name), Call("select_consumable", name, 0, 0, FALSE))
    /\ run' = NoRun
    /\ UNCHANGED cvars

\* the counter called name is serialized and rebuilt from the structure
RoundTrip(name) ==
    /\ IndexOf(custom, name) # 0
    /\ LET i == IndexOf(custom, name)
           rebuilt == from_dict(to_dict(custom[i]))
       IN  Return(IF rebuilt.err = "ok"
                  THEN Ok([Self EXCEPT !.custom[i] = rebuilt.counter], << >>)
                  ELSE Raise(Self, rebuilt.err),
                  Call("from_dict", name, 0, 0, FALSE))
    /\ run' = NoRun
    /\ UNCHANGED cvars

\* evaluate_cvar(varstr): the call records the string handed to roll (as
\* tokens) as its list and the total as its value
EvaluateCvar(varstr) ==
    /\ ret' = SubstStatVars(SubstCvars(Strip(Str(varstr))))
    /\ last' = Call("evaluate_cvar", varstr, 0, evaluate_cvar(varstr), FALSE)
    /\ err' = "ok"
    /\ synced' = << >>
    /\ run' = NoRun
    /\ UNCHANGED <<hp, temp_hp, max_hp, death_saves, spellslots, max_spellslots, custom,
                   cvars, options, live_integration>>

\* ----------------------------------------------------------------- inputs
\* the names handed to the custom-counter methods
Names == {"Rage", "Ward"}

\* largest value handed to set_consumable
MaxValueArg == 3

Kwargs(maxValue, minValue, rst, displayType, live) ==
    [maxValue |-> maxValue, minValue |-> minValue, reset |-> rst,
     displayType |-> displayType, live |-> live]

\* the calls of create_consumable: one per branch of its validation
CreateCalls ==
    {<<"Rage", Kwargs(<<"2">>, <<"0">>, "long", None, None)>>,
     <<"Rage", Kwargs(<<"2">>, <<"0">>, "long", "bubble", "dc1")>>,
     <<"Rage", Kwargs(<<"2">>, NoExpr, None, None, None)>>,
     <<"Rage", Kwargs(<<"0">>, NoExpr, "long", None, None)>>,
     <<"Ward", Kwargs(<<"lvl">>, <<"2">>, "short", None, None)>>,
     <<"Ward", Kwargs(NoExpr, NoExpr, None, None, None)>>,
     <<"Ward", Kwargs(<<"2">>, <<"0">>, "none", None, None)>>,
     <<"Rage", Kwargs(<<"0">>, <<"0">>, None, None, None)>>,
     <<"Ward", Kwargs(<<"2">>, <<"0">>, "hp", None, None)>>,
     <<"Rage", Kwargs(NoExpr, NoExpr, "short", None, None)>>,
     <<"Ward", Kwargs(<<"2">>, NoExpr, None, "bubble", None)>>,
     <<"Rage", Kwargs(<<"2">>, <<"0">>, "weekly", None, None)>>,
     <<"Hit.Dice", Kwargs(<<"2">>, <<"0">>, "long", None, None)>>}

\* a counter of the stored character that the 'hp' trigger resets.
\* create_consumable refuses reset='hp' and is what gives a counter its live
\* id, so such a counter comes with the stored character and has none.
Ward(value) ==
    [name |-> "Ward", value |-> value, max |-> <<"2">>, min |-> <<"0">>,
     reset |-> "hp", type |-> None, live |-> None]

\* the custom counters of the stored character
StoredCustom == {<< >>, <<Ward(0)>>, <<Ward(1)>>}

\* the spell-slot maxima of the stored character's spellbook
SlotTables == {<<4, 3, 2, 0, 0, 0, 0, 0, 0>>, <<2, 0, 2, 0, 0, 0, 0, 0, 1>>}

Ledger(table, values) ==
    [l \in SpellLevels |-> [value |-> values[l], min |-> 0, max |-> table[l]]]

NoCall == Call("__init__", None, 0, 0, FALSE)

\* ---------------------------------------------------------- specifications
\* the custom counters and the rest triggers, on a rested character
Init ==
    /\ max_hp = MaxHpBound
    /\ hp = max_hp
    /\ temp_hp = 0
    /\ death_saves = [successes |-> 0, fails |-> 0]
    /\ max_spellslots = <<4, 3, 2, 0, 0, 0, 0, 0, 0>>
    /\ spellslots = Ledger(max_spellslots, max_spellslots)
    /\ custom \in StoredCustom
    /\ cvars = [n \in {"lvl"} |-> <<"level">>]
    /\ options = [srslots |-> FALSE]
    /\ live_integration \in BOOLEAN
    /\ synced = << >>
    /\ last = NoCall
    /\ err = "ok"
    /\ ret = << >>
    /\ run = NoRun

Next ==
    \/ \E call \in CreateCalls : CreateConsumable(call[1], call[2])
    \/ \E name \in Names, newValue \in -1..MaxValueArg, strict \in BOOLEAN :
          SetConsumable(name, newValue, strict)
    \/ \E name \in Names : DeleteConsumable(name)
    \/ \E name \in Names : ResetConsumable(name)
    \/ \E scope \in {"hp", "short", "long", None} : ResetCustom(scope)
    \/ OnHp
    \/ ShortRest
    \/ LongRest
    \/ ResetAllConsumables
    \/ \E name \in {"lvl", "a+b"}, val \in {<<"1">>, <<"level">>} : SetCvar(name, val)

Spec == Init /\ [][Next]_vars

\* the spell-slot ledger
InitSlots ==
    /\ max_hp = MaxHpBound
    /\ hp = max_hp
    /\ temp_hp = 0
    /\ death_saves = [successes |-> 0, fails |-> 0]
    /\ max_spellslots \in SlotTables
    /\ spellslots = Ledger(max_spellslots, max_spellslots)
    /\ custom = << >>
    /\ cvars = [n \in {"lvl"} |-> <<"level">>]
    /\ options \in {[srslots |-> FALSE], [srslots |-> TRUE]}
    /\ live_integration \in BOOLEAN
    /\ synced = << >>
    /\ last = NoCall
    /\ err = "ok"
    /\ ret = << >>
    /\ run = NoRun

NextSlots ==
    \/ \E level \in -1..10 : UseSlot(level)
    \/ \E level \in -1..10, value \in -1..MaxSlotArg : SetRemainingSlots(level, value)
    \/ ResetSpellslots
    \/ ShortRest
    \/ LongRest

SpecSlots == InitSlots /\ [][NextSlots]_vars

\* hit points and death saves
InitVitals ==
    /\ max_hp = MaxHpBound
    /\ hp \in (0 - HpFloor)..max_hp
    /\ temp_hp = 0
    /\ death_saves \in [successes : 0..3, fails : 0..3]
    /\ max_spellslots = <<4, 3, 2, 0, 0, 0, 0, 0, 0>>
    /\ spellslots = Ledger(max_spellslots, max_spellslots)
    /\ custom \in StoredCustom
    /\ cvars = [n \in {"lvl"} |-> <<"level">>]
    /\ options = [srslots |-> FALSE]
    /\ live_integration \in BOOLEAN
    /\ synced = << >>
    /\ last = NoCall
    /\ err = "ok"
    /\ ret = << >>
    /\ run = NoRun

NextVitals ==
    \/ \E num \in 1..MaxIncrement : Succeed(num)
    \/ \E num \in 1..MaxIncrement : Fail(num)
    \/ ResetDeathSaves
    \/ \E newValue \in (0 - HpFloor)..MaxHpBound : SetHp(newValue)
    \/ \E value \in (0 - MaxHpBound)..MaxHpBound, ignore_temp \in BOOLEAN :
          ModifyHp(value, ignore_temp)
    \/ \E value \in -1..MaxTempHp : SetTempHp(value)
    \/ ResetHp
    \/ OnHp
    \/ ShortRest
    \/ LongRest

SpecVitals == InitVitals /\ [][NextVitals]_vars

\* the rest triggers on a character in play: hit points lost, slots spent,
\* counters of every scope, with and without a live id
StoredCounter(name, value, rst, live) ==
    [name |-> name, value |-> value, max |-> <<"2">>, min |-> <<"0">>,
     reset |-> rst, type |-> None, live |-> live]

\* a counter with no bound and no reset (create_consumable(name) alone)
Note ==
    [name |-> "Note", value |-> 0, max |-> NoExpr, min |-> NoExpr,
     reset |-> None, type |-> None, live |-> None]

RestCustom ==
    {<< >>,
     <<Ward(0)>>,
     <<Ward(0), StoredCounter("Focus", 1, "short", None), StoredCounter("Rage", 0, "long", None)>>,
     <<StoredCounter("Rage", 0, "long", "dc1")>>,
     <<StoredCounter("Focus", 0, "short", "dc2")>>,
     <<StoredCounter("Rage", 0, "long", None), StoredCounter("Luck", 0, None, None)>>,
     <<StoredCounter("Luck", 0, None, None), Note>>}

InitRest ==
    /\ max_hp = MaxHpBound
    /\ hp \in {0 - HpFloor, 0, max_hp}
    /\ temp_hp \in {0, MaxTempHp}
    /\ death_saves \in {[successes |-> 0, fails |-> 0], [successes |-> 1, fails |-> 2]}
    /\ max_spellslots = <<4, 3, 2, 0, 0, 0, 0, 0, 0>>
    /\ spellslots = Ledger(max_spellslots, max_spellslots)
    /\ custom \in RestCustom
    /\ cvars = [n \in {"lvl"} |-> <<"level">>]
    /\ options \in {[srslots |-> FALSE], [srslots |-> TRUE]}
    /\ live_integration \in BOOLEAN
    /\ synced = << >>
    /\ last = NoCall
    /\ err = "ok"
    /\ ret = << >>
    /\ run = NoRun

NextRest ==
    \/ \E level \in {0, 3} : UseSlot(level)
    \/ \E level \in {0, 3}, value \in {-1, 1, MaxSlotArg} : SetRemainingSlots(level, value)
    \/ ResetSpellslots
    \/ \E newValue \in {0 - HpFloor, 0, MaxHpBound} : SetHp(newValue)
    \/ \E name \in {"Rage", "Focus"}, newValue \in {0, MaxValueArg}, strict \in BOOLEAN :
          SetConsumable(name, newValue, strict)
    \/ OnHp
    \/ ShortRest
    \/ LongRest
    \/ ResetAllConsumables

SpecRest == InitRest /\ [][NextRest]_vars

\* the registry of custom counters: creation, deletion, lookup, reload
PotionNames == {"Potion", "potion", "Potion of Healing"}

Queries == {"pot", "POTION", "Heal", "elixir", "Potion of Healing"}

PotionKwargs ==
    {Kwargs(<<"2">>, <<"0">>, "long", None, None), Kwargs(NoExpr, NoExpr, None, None, None)}

InitRegistry ==
    /\ max_hp = MaxHpBound
    /\ hp = max_hp
    /\ temp_hp = 0
    /\ death_saves = [successes |-> 0, fails |-> 0]
    /\ max_spellslots = <<4, 3, 2, 0, 0, 0, 0, 0, 0>>
    /\ spellslots = Ledger(max_spellslots, max_spellslots)
    /\ custom = << >>
    /\ cvars = [n \in {"lvl"} |-> <<"level">>]
    /\ options = [srslots |-> FALSE]
    /\ live_integration = FALSE
    /\ synced = << >>
    /\ last = NoCall
    /\ err = "ok"
    /\ ret = << >>
    /\ run = NoRun

NextRegistry ==
    \/ \E name \in PotionNames, kwargs \in PotionKwargs : CreateConsumable(name, kwargs)
    \/ \E name \in PotionNames : DeleteConsumable(name)
    \/ \E name \in Queries : SelectConsumable(name)
    \/ \E name \in PotionNames : RoundTrip(name)

SpecRegistry == InitRegistry /\ [][NextRegistry]_vars

\* the cvar evaluator, over cvar tables written with set_cvar
CvarNames == {"level", "lvl", "bonus", "a+b"}

CvarValues == {<<"1">>, <<"level">>, <<"bonus">>, <<"spell", "+", "lvl">>}

Expressions ==
    {<<"level">>, <<"lvl">>, <<"bonus">>, <<"spell">>, <<"foo">>, <<"2">>,
     <<"lvl", "+", "proficiencyBonus">>, <<"<", "lvl", ">">>, NoExpr}

InitCvars ==
    /\ max_hp = MaxHpBound
    /\ hp = max_hp
    /\ temp_hp = 0
    /\ death_saves = [successes |-> 0, fails |-> 0]
    /\ max_spellslots = <<4, 3, 2, 0, 0, 0, 0, 0, 0>>
    /\ spellslots = Ledger(max_spellslots, max_spellslots)
    /\ custom = << >>
    /\ cvars = << >>
    /\ options = [srslots |-> FALSE]
    /\ live_integration = FALSE
    /\ synced = << >>
    /\ last = NoCall
    /\ err = "ok"
    /\ ret = << >>
    /\ run = NoRun

NextCvars ==
    \/ \E name \in CvarNames, val \in CvarValues : SetCvar(name, val)
    \/ \E varstr \in Expressions : EvaluateCvar(varstr)

SpecCvars == InitCvars /\ [][NextCvars]_vars

\* ------------------------------------------------------------- properties
InList(list, x) == \E i \in 1..Len(list) : list[i] = x

\* the counter called name, as stored
Counter(name) == custom[IndexOf(custom, name)]

Exists(name) == IndexOf(custom, name) # 0

NoDeathSaves == [successes |-> 0, fails |-> 0]

\* C3: under any sequence of succeed(n) / fail(n) / reset() calls, from counts
\* in 0..3, successes and fails stay within 0..3, and reset() leaves (0, 0).
C3_DeathSavesCapped ==
    /\ death_saves.successes \in 0..3
    /\ death_saves.fails \in 0..3
    /\ last.op = "reset" => death_saves = NoDeathSaves

\* succeed(n) with n > 3 has been called: the count stopped at 3
C3_Witness ==
    /\ last.op = "succeed"
    /\ last.value > 3
    /\ death_saves.successes = 3

\* C4: from a full pool of m slots of a level, the first m use_slot(level)
\* calls in a row succeed, each leaving one slot less, and the next one fails
\* with CounterOutOfBounds leaving 0.
C4_UseSlotDrainsPool ==
    (last.op = "use_slot" /\ run.count > 0) =>
        LET m == get_max_spellslots(run.level)
        IN  /\ run.count <= m =>
                 err = "ok" /\ spellslots[run.level].value = m - run.count
            /\ run.count = m + 1 =>
                 err = "CounterOutOfBounds" /\ spellslots[run.level].value = 0

\* a pool of at least 2 slots was used up and one more use was refused
C4_Witness ==
    /\ last.op = "use_slot"
    /\ get_max_spellslots(run.level) >= 2
    /\ run.count = get_max_spellslots(run.level) + 1
    /\ err = "CounterOutOfBounds"

\* C5: use_slot(0) succeeds and leaves the remaining count of every level as
\* it was, and the count reported for level 0 is 1 in every state.
C5_CantripsAreFree ==
    /\ [][(last'.op = "use_slot" /\ last'.level = 0) =>
             (err' = "ok" /\ spellslots' = spellslots)]_vars
    /\ [](get_remaining_slots(Self, 0) = [err |-> "ok", value |-> 1])

\* use_slot(0) was called on a ledger with a slot spent
C5_Witness ==
    /\ last.op = "use_slot"
    /\ last.level = 0
    /\ err = "ok"
    /\ \E l \in SpellLevels : spellslots[l].value < get_max_spellslots(l)

\* C6: set_remaining_slots(level, value) fails with InvalidSpellLevel when
\* level is outside 1..9 and with CounterOutOfBounds when value is outside
\* [0, max of the level]; either way no level's remaining count changes.
C6_SetRemainingRejects ==
    [][last'.op = "set_remaining_slots" =>
          /\ last'.level \notin SpellLevels =>
                err' = "InvalidSpellLevel" /\ spellslots' = spellslots
          /\ (/\ last'.level \in SpellLevels
              /\ (last'.value < 0 \/ last'.value > get_max_spellslots(last'.level))) =>
                err' = "CounterOutOfBounds" /\ spellslots' = spellslots]_vars

\* set_remaining_slots(3, 5) was refused on a character with 2 slots of level 3
C6_Witness ==
    /\ last.op = "set_remaining_slots"
    /\ last.level = 3
    /\ last.value = 5
    /\ get_max_spellslots(3) = 2
    /\ err = "CounterOutOfBounds"

\* C8: _reset_custom('short') leaves every counter tagged 'long' as it is and
\* never lists it, and _reset_custom('long') does the same for 'short' ones.
C8_ScopesAreDisjoint ==
    [][(last'.op = "_reset_custom" /\ last'.name \in {"short", "long"}) =>
          \A i \in 1..Len(custom) :
             (custom[i].reset \in {"short", "long"} /\ custom[i].reset # last'.name) =>
                /\ i <= Len(custom')
                /\ custom'[i] = custom[i]
                /\ ~InList(ret', custom[i].name)]_vars

\* _reset_custom('short') reset a counter while a 'long' one was below its max
C8_Witness ==
    /\ last.op = "_reset_custom"
    /\ last.name = "short"
    /\ err = "ok"
    /\ ret # << >>
    /\ \E i \in 1..Len(custom) :
          /\ custom[i].reset = "long"
          /\ custom[i].value # evaluate_cvar(custom[i].max)

HasBothBounds(counter) == HasMin(counter) /\ HasMax(counter)

\* C1: after set_consumable(name, v, strict=False) on a counter with a min
\* and a max, the call has succeeded and min <= value <= max.
C1_NonStrictSetClamps ==
    (/\ last.op = "set_consumable"
     /\ ~last.strict
     /\ Exists(last.name)
     /\ HasBothBounds(Counter(last.name))) =>
        /\ err = "ok"
        /\ evaluate_cvar(Counter(last.name).min) <= Counter(last.name).value
        /\ Counter(last.name).value <= evaluate_cvar(Counter(last.name).max)

\* C2: set_consumable(name, v, strict=True) on an existing counter either
\* fails with CounterOutOfBounds, v being out of bounds and the counters left
\* as they were, or succeeds with the counter's value equal to v.
C2_StrictSetAllOrNothing ==
    [][(/\ last'.op = "set_consumable"
        /\ last'.strict
        /\ Exists(last'.name)) =>
          \/ /\ err' = "CounterOutOfBounds"
             /\ ~InBounds(Counter(last'.name), last'.value)
             /\ custom' = custom
          \/ /\ err' = "ok"
             /\ custom'[IndexOf(custom, last'.name)].value = last'.value]_vars

\* C7: on_hp() resets the death saves to (0, 0) and lists "Death Saves" if
\* current HP > 0; if HP <= 0 it leaves the death saves as they were and does
\* not list them.
C7_OnHpDeathSaves ==
    [][last'.op = "on_hp" =>
          IF hp > 0
          THEN death_saves' = NoDeathSaves /\ InList(ret', "Death Saves")
          ELSE death_saves' = death_saves /\ ~InList(ret', "Death Saves")]_vars

\* C9: each of on_hp(), short_rest() and long_rest() leaves every counter
\* tagged 'hp' that has a max at its resolved max, and returns a list with its
\* name in it.
C9_HpScopeResetByAll ==
    last.op \in {"on_hp", "short_rest", "long_rest"} =>
        \A i \in 1..Len(custom) :
           (custom[i].reset = "hp" /\ HasMax(custom[i])) =>
              /\ custom[i].value = evaluate_cvar(custom[i].max)
              /\ InList(ret, custom[i].name)

\* C10: a counter created with a max, a min and reset 'long' starts at its
\* resolved max, and long_rest() leaves every such counter at its resolved
\* max and returns a list with its name in it.
C10_LongCounterRestored ==
    \A i \in 1..Len(custom) :
       (HasBothBounds(custom[i]) /\ custom[i].reset = "long") =>
          /\ (last.op = "create_consumable" /\ last.name = custom[i].name /\ err = "ok") =>
                custom[i].value = evaluate_cvar(custom[i].max)
          /\ last.op = "long_rest" =>
                /\ custom[i].value = evaluate_cvar(custom[i].max)
                /\ InList(ret, custom[i].name)

\* on_hp() was called at 0 HP or below with death saves on record, and left them
C7_Witness ==
    /\ last.op = "on_hp"
    /\ err = "ok"
    /\ hp <= 0
    /\ death_saves # NoDeathSaves
    /\ ~InList(ret, "Death Saves")

\* C11: create_consumable with a max that resolves to 0 fails with
\* InvalidArgument and inserts no counter, with or without a min.
C11_ZeroMaxRejected ==
    [][\A call \in CreateCalls :
          (/\ CreateConsumable(call[1], call[2])
           /\ call[2].maxValue # NoExpr
           /\ evaluate_cvar(call[2].maxValue) = 0) =>
             err' = "InvalidArgument" /\ custom' = custom]_vars

\* the arguments pass every test of create_consumable but the one on reset
ValidButReset(name, kwargs) ==
    /\ ~ContainsAny(name, {".", "$"})
    /\ kwargs.maxValue # NoExpr
    /\ kwargs.minValue # NoExpr =>
          /\ evaluate_cvar(kwargs.maxValue) >= evaluate_cvar(kwargs.minValue)
          /\ evaluate_cvar(kwargs.maxValue) # 0
    /\ kwargs.displayType = "bubble" => kwargs.minValue # NoExpr

\* C12: create_consumable with reset='hp' and otherwise valid arguments
\* succeeds and stores a counter tagged 'hp'; a reset token other than none,
\* short, long and hp fails with InvalidArgument.
C12_ResetScopes ==
    [][\A call \in CreateCalls :
          CreateConsumable(call[1], call[2]) =>
             /\ (call[2].reset = "hp" /\ ValidButReset(call[1], call[2])) =>
                   /\ err' = "ok"
                   /\ IndexOf(custom', call[1]) # 0
                   /\ custom'[IndexOf(custom', call[1])].reset = "hp"
             /\ call[2].reset \notin {"none", "short", "long", "hp", None} =>
                   err' = "InvalidArgument"]_vars

\* C13: reset_consumable(name) on an existing counter fails with NoReset and
\* changes nothing when the counter's reset is 'none' or unset or it has no
\* max; otherwise it leaves the counter at its resolved max, clamped as a
\* non-strict set clamps.
C13_ResetConsumable ==
    [][(last'.op = "reset_consumable" /\ Exists(last'.name)) =>
          IF Counter(last'.name).reset \in {"none", None} \/ ~HasMax(Counter(last'.name))
          THEN err' = "NoReset" /\ custom' = custom
          ELSE custom'[IndexOf(custom, last'.name)].value =
                  Clamp(Counter(last'.name), evaluate_cvar(Counter(last'.name).max))]_vars

AllSlotsFull(ledger) == \A l \in SpellLevels : ledger[l].value = get_max_spellslots(l)

\* how many times x is in list
Count(list, x) == Cardinality({i \in 1..Len(list) : list[i] = x})

\* C14: short_rest() with 'srslots' enabled leaves every level's remaining
\* count at its max and lists "Spell Slots"; with 'srslots' disabled it leaves
\* every remaining count as it was and does not list "Spell Slots".
C14_ShortRestSlots ==
    [][last'.op = "short_rest" =>
          IF get_setting("srslots")
          THEN AllSlotsFull(spellslots') /\ InList(ret', "Spell Slots")
          ELSE spellslots' = spellslots /\ ~InList(ret', "Spell Slots")]_vars

\* C15: after long_rest(), whatever 'srslots' is, every level's remaining
\* count is at its max and "Spell Slots" is in the returned list exactly once.
C15_LongRestSlots ==
    last.op = "long_rest" => AllSlotsFull(spellslots) /\ Count(ret, "Spell Slots") = 1

\* C16: after long_rest(), from any hit points and temporary hit points,
\* hp = max_hp and temp_hp = 0, and "HP" is in the returned list after the
\* name of every 'long' counter that has a max.
C16_LongRestHp ==
    [][last'.op = "long_rest" =>
          /\ hp' = max_hp
          /\ temp_hp' = 0
          /\ \E i \in 1..Len(ret') :
                /\ ret'[i] = "HP"
                /\ \A j \in 1..Len(custom) :
                      (custom[j].reset = "long" /\ HasMax(custom[j])) =>
                         \E k \in 1..(i - 1) : ret'[k] = custom[j].name]_vars

\* the names of the counters tagged scope that have a max, in dict order
RECURSIVE NamesOf(_, _)
NamesOf(counters, scope) ==
    IF counters = << >> THEN << >>
    ELSE (IF Head(counters).reset = scope /\ HasMax(Head(counters))
          THEN <<Head(counters).name>> ELSE << >>) \o NamesOf(Tail(counters), scope)

LabelIf(cond, label) == IF cond THEN <<label>> ELSE << >>

\* the lists on_hp(), short_rest() and long_rest() are to return, from the
\* hit points and the setting the handler finds
OnHpLabels(alive) == NamesOf(custom, "hp") \o LabelIf(alive, "Death Saves")

ShortRestLabels(alive) ==
    OnHpLabels(alive) \o NamesOf(custom, "short") \o LabelIf(get_setting("srslots"), "Spell Slots")

LongRestLabels(alive) ==
    OnHpLabels(alive) \o ShortRestLabels(alive) \o NamesOf(custom, "long") \o <<"HP">>
    \o LabelIf(~get_setting("srslots"), "Spell Slots")

\* C17: reset_all_consumables() returns the labels of on_hp(), then those of
\* short_rest(), then those of long_rest(), then the names of the counters
\* with no reset scope that it reset, and leaves every counter that has no
\* reset scope and a max at its resolved max.
C17_ResetAllOrder ==
    [][last'.op = "reset_all_consumables" =>
          /\ ret' = OnHpLabels(hp > 0) \o ShortRestLabels(hp > 0) \o LongRestLabels(hp > 0)
                    \o NamesOf(custom, None)
          /\ \A i \in 1..Len(custom') :
                (custom'[i].reset = None /\ HasMax(custom'[i])) =>
                   custom'[i].value = evaluate_cvar(custom'[i].max)]_vars

\* the counters whose name is the query / holds the query, case aside
ExactMatches(name) ==
    {i \in 1..Len(custom) : LowerChars(custom[i].name) = LowerChars(name)}

SubstringMatches(name) ==
    {i \in 1..Len(custom) : IsSubstring(LowerChars(name), LowerChars(custom[i].name))}

\* list holds the name of each counter of indices once, and nothing else
Offers(list, indices) ==
    /\ Len(list) = Cardinality(indices)
    /\ \A i \in indices : InList(list, custom[i].name)

\* C19: select_consumable(name) offers exactly the counters whose name equals
\* the query case-insensitively when there is one; otherwise exactly the
\* counters whose name contains the query case-insensitively; and fails with
\* ConsumableNotFound when there is none.
C19_SelectCandidates ==
    last.op = "select_consumable" =>
        IF ExactMatches(last.name) # {}
        THEN err = "ok" /\ Offers(ret, ExactMatches(last.name))
        ELSE IF SubstringMatches(last.name) # {}
        THEN err = "ok" /\ Offers(ret, SubstringMatches(last.name))
        ELSE err = "ConsumableNotFound"

\* "pot" was looked up with "Potion" and "Potion of Healing" on record, and
\* both were offered
C19_Witness ==
    /\ last.op = "select_consumable"
    /\ last.name = "pot"
    /\ err = "ok"
    /\ Len(ret) = 2
    /\ InList(ret, "Potion")
    /\ InList(ret, "Potion of Healing")

\* C18: a counter serialized with to_dict and rebuilt with from_dict has the
\* value, min, max, reset scope and display type it had.
C18_RoundTrip ==
    [][last'.op = "from_dict" =>
          /\ err' = "ok"
          /\ Len(custom') = Len(custom)
          /\ \A i \in 1..Len(custom) :
                /\ custom'[i].value = custom[i].value
                /\ custom'[i].min = custom[i].min
                /\ custom'[i].max = custom[i].max
                /\ custom'[i].reset = custom[i].reset
                /\ custom'[i].type = custom[i].type]_vars

\* the live-sheet calls a handler is to issue: `call` with a live integration
SyncCalls(wanted, call) == IF wanted THEN <<call>> ELSE << >>

\* C20: set_hp, set_remaining_slots, reset_spellslots and set_consumable
\* issue their live-sheet sync call only with the value written, issue none
\* and write nothing when the arguments fail validation, and return normally
\* whenever the arguments pass it.
C20_SyncAfterWrite ==
    [][/\ last'.op = "set_hp" =>
             /\ err' = "ok"
             /\ hp' = last'.value
             /\ synced' = SyncCalls(live_integration, "sync_hp")
       /\ last'.op = "set_remaining_slots" =>
             IF /\ last'.level \in SpellLevels
                /\ 0 <= last'.value
                /\ last'.value <= get_max_spellslots(last'.level)
             THEN /\ err' = "ok"
                  /\ spellslots'[last'.level].value = last'.value
                  /\ synced' = SyncCalls(live_integration, "sync_slots")
             ELSE err' # "ok" /\ spellslots' = spellslots /\ synced' = << >>
       /\ last'.op = "reset_spellslots" =>
             /\ err' = "ok"
             /\ AllSlotsFull(spellslots')
             /\ synced' = SyncCalls(live_integration, "sync_slots")
       /\ last'.op = "set_consumable" =>
             IF Exists(last'.name) /\ (last'.strict => InBounds(Counter(last'.name), last'.value))
             THEN /\ err' = "ok"
                  /\ custom'[IndexOf(custom, last'.name)].value =
                        (IF last'.strict THEN last'.value
                         ELSE Clamp(Counter(last'.name), last'.value))
                  /\ synced' = SyncCalls(live_integration /\ Counter(last'.name).live # None,
                                         "sync_consumable")
             ELSE err' # "ok" /\ custom' = custom /\ synced' = << >>]_vars

\* what a token is to become: the cvar's value if a cvar has its name, the
\* token otherwise, and then in that, each stat variable's name its value
AfterCvars(tok) == IF tok \in DOMAIN cvars THEN cvars[tok] ELSE <<tok>>

AfterStatVars(toks) ==
    [i \in 1..Len(toks) |->
        IF toks[i] \in DOMAIN stat_vars THEN StrOf(stat_vars[toks[i]]) ELSE toks[i]]

RECURSIVE ResolvedTokens(_)
ResolvedTokens(toks) ==
    IF toks = << >> THEN << >>
    ELSE AfterStatVars(AfterCvars(Head(toks))) \o ResolvedTokens(Tail(toks))

\* C21: evaluate_cvar substitutes each token against the cvar table first and
\* the result against the stat variables: a name in both tables takes the
\* cvar's value, a cvar whose value names a stat variable gives that stat
\* variable's value, and a token in neither table passes unchanged.
C21_CvarsBeforeStatVars ==
    last.op = "evaluate_cvar" =>
        /\ ret = ResolvedTokens(Strip(Str(last.name)))
        /\ \A i \in 1..Len(last.name) :
              LET tok == last.name[i]
              IN  /\ (Len(last.name) = 1 /\ tok \in DOMAIN cvars /\ tok \in DOMAIN stat_vars
                      /\ cvars[tok] = <<"1">>) => ret = <<"1">>
                  /\ (Len(last.name) = 1 /\ tok \in DOMAIN cvars /\ cvars[tok] = <<"level">>) =>
                        ret = <<StrOf(stat_vars["level"])>>
                  /\ (tok \notin DOMAIN cvars /\ tok \notin DOMAIN stat_vars
                      /\ tok \notin {"<", ">", "{", "}"}) => InList(ret, tok)

\* 'level' names a stat variable and a cvar set to '1': evaluate_cvar('level')
\* gave the cvar's 1, not the stat variable's 3
C21_Witness ==
    /\ last.op = "evaluate_cvar"
    /\ last.name = <<"level">>
    /\ "level" \in DOMAIN cvars
    /\ cvars["level"] = <<"1">>
    /\ ret = <<"1">>

\* C22: every stored counter displayed as 'bubble' has a min and a max, and
\* every stored counter with a reset scope has a max.
C22_CounterShape ==
    \A i \in 1..Len(custom) :
       /\ custom[i].type = "bubble" => HasMin(custom[i]) /\ HasMax(custom[i])
       /\ custom[i].reset # None => HasMax(custom[i])

\* a 'bubble' counter is on record and a creation asking for a bubble display
\* without a min has just been refused
C22_Witness ==
    /\ last.op = "create_consumable"
    /\ last.name = "Ward"
    /\ err = "InvalidArgument"
    /\ \E i \in 1..Len(custom) : custom[i].type = "bubble" /\ custom[i].reset = "long"

\* C23: delete_consumable(name) fails with ConsumableNotFound and leaves the
\* counters as they were when none has that name; otherwise it removes that
\* counter and leaves every other counter as it was, in the order they had.
C23_DeleteConsumable ==
    [][last'.op = "delete_consumable" =>
          IF ~Exists(last'.name)
          THEN err' = "ConsumableNotFound" /\ custom' = custom
          ELSE /\ err' = "ok"
               /\ Len(custom') = Len(custom) - 1
               /\ \A j \in 1..Len(custom) :
                     /\ j < IndexOf(custom, last'.name) => custom'[j] = custom[j]
                     /\ j > IndexOf(custom, last'.name) => custom'[j - 1] = custom[j]]_vars

\* a counter was deleted and the other one is still on record
C23_Witness ==
    /\ last.op = "delete_consumable"
    /\ err = "ok"
    /\ Len(custom) = 1
    /\ custom[1].name # last.name

\* C24: whenever long_rest() leaves the death saves at (0, 0) from a count
\* that was not, "Death Saves" is in the list it returns.
C24_LongRestReportsDeathSaves ==
    [][(/\ last'.op = "long_rest"
        /\ death_saves # NoDeathSaves
        /\ death_saves' = NoDeathSaves) => InList(ret', "Death Saves")]_vars

\* C25: with the table of maxima fixed, under any sequence of use_slot,
\* set_remaining_slots, reset_spellslots, short_rest and long_rest calls,
\* failed ones included, 0 <= remaining <= max holds for every level 1..9.
C25_SlotsWithinBounds ==
    \A l \in SpellLevels :
       0 <= spellslots[l].value /\ spellslots[l].value <= get_max_spellslots(l)

\* use_slot was refused on an empty pool while another level was part spent
C25_Witness ==
    /\ last.op = "use_slot"
    /\ err = "CounterOutOfBounds"
    /\ get_max_spellslots(last.level) > 0
    /\ spellslots[last.level].value = 0
    /\ \E l \in SpellLevels :
          0 < spellslots[l].value /\ spellslots[l].value < get_max_spellslots(l)

====
